---------------------------- MODULE Spec2Model ----------------------------
(***************************************************************************)
(* three-bodies (src/src/main.rs): three point masses attract each other,  *)
(* are integrated frame by frame on a torus, leave fading trails and       *)
(* either halt on collision or collide elastically.                        *)
(*                                                                         *)
(* Numbers.  The program computes in f32.  Here positions, velocities and  *)
(* masses are whole pixels (integers); the force and collision arithmetic  *)
(* of update_velocity is carried out operation by operation in fixed point *)
(* with Scale units per pixel, and the velocity it assigns is rounded to   *)
(* whole pixels.  Alpha is a fixed-point number with AlphaOne units for    *)
(* 1.0.  A vector that the f32 arithmetic would make NaN (0.0 * inf in     *)
(* normalize() of the zero vector) is the vector with nan = TRUE; NaN      *)
(* propagates through every operation and fails every comparison.          *)
(***************************************************************************)
EXTENDS Integers, Sequences, FiniteSets

(***************************************************************************)
(* Arithmetic                                                              *)
(***************************************************************************)
Scale == 100

Abs(a) == IF a < 0 THEN -a ELSE a

Signum(a) == IF a < 0 THEN -1 ELSE 1

\* a / b rounded to the nearest integer (b > 0), as one rounded f32 division.
RDiv(a, b) ==
    IF a >= 0 THEN (2 * a + b) \div (2 * b) ELSE -((2 * (-a) + b) \div (2 * b))

RECURSIVE SqrtSearch(_, _, _)
\* The largest r in lo..hi-1 with r * r <= n.
SqrtSearch(n, lo, hi) ==
    IF hi - lo <= 1 THEN lo
    ELSE LET mid == (lo + hi) \div 2
         IN  IF mid * mid <= n THEN SqrtSearch(n, mid, hi)
             ELSE SqrtSearch(n, lo, mid)

\* sqrt(n) rounded to the nearest integer.
Sqrt(n) ==
    LET r == SqrtSearch(n, 0, 46340)
    IN  IF n - r * r > r THEN r + 1 ELSE r

(***************************************************************************)
(* The viewport: screen_width() and screen_height(), in pixels.            *)
(***************************************************************************)
ScreenW == 16

ScreenH == 16


(***************************************************************************)
(* Vec2                                                                    *)
(***************************************************************************)
Vec(x, y) == [x |-> x, y |-> y, nan |-> FALSE]

NaNVec == [x |-> 0, y |-> 0, nan |-> TRUE]

VAdd(a, b) == IF a.nan \/ b.nan THEN NaNVec ELSE Vec(a.x + b.x, a.y + b.y)

VSub(a, b) == IF a.nan \/ b.nan THEN NaNVec ELSE Vec(a.x - b.x, a.y - b.y)

\* Vec2 scaled by the fixed-point factor k (Scale units for 1.0).
VScale(k, v) == IF v.nan THEN NaNVec ELSE Vec(RDiv(k * v.x, Scale), RDiv(k * v.y, Scale))

\* A whole-pixel vector in fixed point, and back (rounded).
ToFixed(v) == IF v.nan THEN NaNVec ELSE Vec(v.x * Scale, v.y * Scale)

ToPixels(v) == IF v.nan THEN NaNVec ELSE Vec(RDiv(v.x, Scale), RDiv(v.y, Scale))

\* sqrt of a squared whole-pixel length, in fixed point, tabulated once for
\* the lengths that fit the viewport.
LengthTable == [n \in 0..(4 * ScreenW * ScreenW + 4 * ScreenH * ScreenH) |-> Sqrt(n * Scale * Scale)]

\* Vec2::length of a whole-pixel vector, in fixed point.
Length(v) ==
    LET n == v.x * v.x + v.y * v.y
    IN  IF n \in DOMAIN LengthTable THEN LengthTable[n] ELSE Sqrt(n * Scale * Scale)

\* Vec2::distance of two positions, in fixed point (meaningless for NaN).
Distance(p, q) == Length(VSub(q, p))

(***************************************************************************)
(* Body                                                                    *)
(***************************************************************************)
BodyIdx == 0..2

\* The array as the sequence bodies.iter() yields.
Iter(bs) == <<bs[0], bs[1], bs[2]>>

RECURSIVE VSum(_)
\* reduce(|acc, v| acc + v) over a non-empty sequence of vectors.
VSum(vs) == IF Len(vs) = 1 THEN vs[1] ELSE VAdd(vs[1], VSum(Tail(vs)))

\* collides_with with the boundary excluded (< for <=).
CollidesStrictly(self, other) ==
    /\ ~self.position.nan
    /\ ~other.position.nan
    /\ Distance(self.position, other.position) < (self.mass + other.mass) * Scale

\* Body::collides_with: distance <= sum of the masses; false on NaN.
collides_with(self, other) ==
    /\ ~self.position.nan
    /\ ~other.position.nan
    /\ Distance(self.position, other.position) <= (self.mass + other.mass) * Scale

\* The elastic closure with v1 written for v2.
ElasticTermOwnVelocity(self, other) ==
    LET m1 == self.mass
        m2 == other.mass
        v1 == ToFixed(self.velocity)
    IN  VAdd(VScale(RDiv((m1 - m2) * Scale, m1 + m2), v1),
             VScale(RDiv(2 * m2 * Scale, m1 + m2), v1))

\* The closure of the elastic branch: v1_prime for one overlapping other.
ElasticTerm(self, other) ==
    LET m1 == self.mass
        m2 == other.mass
        v1 == ToFixed(self.velocity)
        v2 == ToFixed(other.velocity)
    IN  VAdd(VScale(RDiv((m1 - m2) * Scale, m1 + m2), v1),
             VScale(RDiv(2 * m2 * Scale, m1 + m2), v2))

\* The displacement the force uses: other - self, each axis replaced by the
\* shorter torus path when it is longer than half the viewport.
WrappedDelta(self, other) ==
    LET d == VSub(other.position, self.position)
    IN  IF d.nan THEN NaNVec
        ELSE Vec(IF 2 * Abs(d.x) > ScreenW THEN d.x - Signum(d.x) * ScreenW ELSE d.x,
                 IF 2 * Abs(d.y) > ScreenH THEN d.y - Signum(d.y) * ScreenH ELSE d.y)

\* 9.81 in fixed point.
GravityScale == 981

\* The closure of the gravity branch: direction * force for one other body.
\* A zero displacement gives normalize() = 0 * inf = NaN.
GravityTerm(self, other) ==
    LET delta == WrappedDelta(self, other)
        distance == Length(delta)
    IN  IF delta.nan \/ distance = 0 THEN NaNVec
        ELSE LET direction == Vec(RDiv(delta.x * Scale * Scale, distance),
                                  RDiv(delta.y * Scale * Scale, distance))
                 force == RDiv(self.mass * other.mass * Scale * Scale,
                               RDiv(distance * distance, Scale))
             IN  VScale(force, direction)

\* The velocity increment of the gravity branch, in fixed point.
GravityIncrement(self, bodies) ==
    LET others == SelectSeq(Iter(bodies), LAMBDA b : b.id # self.id)
        sum == VSum([i \in 1..Len(others) |-> GravityTerm(self, others[i])])
        g == VScale(GravityScale, sum)
    IN  IF g.nan THEN NaNVec ELSE Vec(RDiv(g.x, self.mass), RDiv(g.y, self.mass))

\* The others the elastic branch keeps: not self, and colliding with self.
Overlapping(self, bodies) ==
    SelectSeq(Iter(bodies), LAMBDA b : b.id # self.id /\ collides_with(self, b))

\* `collided` starting false: the gravity branch is always taken.
CollidedNever(self, bodies, elastic_collisions) == FALSE

\* Whether update_velocity returns before the gravity branch.
Collided(self, bodies, elastic_collisions) ==
    elastic_collisions /\ Len(Overlapping(self, bodies)) > 0

\* The velocity the elastic branch assigns: the sum of the per-pair results.
ElasticVelocity(self, bodies) ==
    LET hit == Overlapping(self, bodies)
    IN  ToPixels(VSum([i \in 1..Len(hit) |-> ElasticTerm(self, hit[i])]))

\* update_velocity without the early return: gravity is added after a
\* collision too.
UpdateVelocityNoReturn(self, bodies, elastic_collisions) ==
    [self EXCEPT !.velocity =
        VAdd(IF Collided(self, bodies, elastic_collisions)
             THEN ElasticVelocity(self, bodies) ELSE self.velocity,
             ToPixels(GravityIncrement(self, bodies)))]

\* Body::update_velocity.
update_velocity(self, bodies, elastic_collisions) ==
    IF Collided(self, bodies, elastic_collisions)
    THEN [self EXCEPT !.velocity = ElasticVelocity(self, bodies)]
    ELSE [self EXCEPT !.velocity =
            VAdd(self.velocity, ToPixels(GravityIncrement(self, bodies)))]

\* The wrap with the branch for positions below zero left out.
WrapAxisUpperOnly(p, extent) ==
    IF p > extent THEN p - extent ELSE p

\* One axis of the wrap in update_position.
WrapAxis(p, extent) ==
    IF p > extent THEN p - extent
    ELSE IF p < 0 THEN p + extent
    ELSE p

\* Body::update_position.
update_position(self) ==
    LET p == VAdd(self.position, self.velocity)
    IN  [self EXCEPT !.position =
            IF p.nan THEN NaNVec
            ELSE Vec(WrapAxis(p.x, ScreenW), WrapAxis(p.y, ScreenH))]

\* has_collision: some pair i < j collides.
has_collision(bodies) ==
    \E i \in BodyIdx : \E j \in BodyIdx : i < j /\ collides_with(bodies[i], bodies[j])

(***************************************************************************)
(* Body::new_random.  The random draws are inputs: the colour channels in  *)
(* [0.2, 1.0] (alpha 1.0), the position in the central half of the         *)
(* viewport, the velocity components in [-1, 1], the mass in [1, 10].      *)
(***************************************************************************)
AlphaOne == 1000000

new_random(id, r, g, b, x, y, vx, vy, m) ==
    [id |-> id,
     colour |-> [r |-> r, g |-> g, b |-> b, a |-> AlphaOne],
     position |-> Vec(x, y),
     velocity |-> Vec(vx, vy),
     mass |-> m]

\* The array literal [new_random(0), new_random(1), new_random(2)].
BodyArray(b0, b1, b2) == [i \in BodyIdx |-> IF i = 0 THEN b0 ELSE IF i = 1 THEN b1 ELSE b2]

\* The range of each draw, on the pixel grid.
ColourRange == {k \in 0..AlphaOne : 5 * k >= AlphaOne}

PosXRange == {x \in 0..ScreenW : 4 * x >= ScreenW /\ 4 * x <= 3 * ScreenW}

PosYRange == {y \in 0..ScreenH : 4 * y >= ScreenH /\ 4 * y <= 3 * ScreenH}

VelRange == -1..1

MassRange == 1..10

\* Whether an array is one the three calls of new_random can return.
IsFresh(bs) ==
    \A i \in BodyIdx :
        /\ bs[i].id = i
        /\ bs[i].colour.r \in ColourRange /\ bs[i].colour.g \in ColourRange
        /\ bs[i].colour.b \in ColourRange /\ bs[i].colour.a = AlphaOne
        /\ ~bs[i].position.nan
        /\ bs[i].position.x \in PosXRange /\ bs[i].position.y \in PosYRange
        /\ ~bs[i].velocity.nan
        /\ bs[i].velocity.x \in VelRange /\ bs[i].velocity.y \in VelRange
        /\ bs[i].mass \in MassRange

\* A body at rest of mass 1, and a general one, with fixed colour draws.
Still(id, x, y) == new_random(id, AlphaOne, AlphaOne \div 2, AlphaOne \div 4, x, y, 0, 0, 1)

Moving(id, x, y, vx, vy, m) ==
    new_random(id, AlphaOne \div 2, AlphaOne, AlphaOne \div 4, x, y, vx, vy, m)

\* The draws the main loop's specification enumerates: bodies far apart (at
\* rest for ever on the pixel grid), on a line (meeting at the second step),
\* closer on a line (touching exactly at the first step), two at the same
\* point, two overlapping with unequal masses, and two flying apart across
\* the viewport's edge.
FreshBodies ==
    { BodyArray(Still(0, 4, 4), Still(1, 12, 4), Still(2, 8, 12)),
      BodyArray(Still(0, 4, 8), Still(1, 8, 8), Still(2, 12, 8)),
      BodyArray(Still(0, 5, 8), Still(1, 8, 8), Still(2, 11, 8)),
      BodyArray(Still(0, 8, 8), Still(1, 8, 8), Still(2, 12, 12)),
      BodyArray(Moving(0, 8, 8, 1, 0, 2), Moving(1, 9, 8, -1, 1, 1), Still(2, 4, 4)),
      BodyArray(Moving(0, 4, 8, -1, 0, 3), Moving(1, 12, 8, 1, 0, 3), Still(2, 8, 4)) }

(***************************************************************************)
(* Trail                                                                   *)
(***************************************************************************)
\* Trail::from(&Body).
TrailFrom(body) == [position |-> body.position, colour |-> body.colour]

\* trail.colour.a *= 0.995
Fade(a) == RDiv(a * 995, 1000)

\* The cutoff 0.01.
Cutoff == AlphaOne \div 100

\* Four and sixteen fades in a row.
Fade4(a) == Fade(Fade(Fade(Fade(a))))

Fade16(a) == Fade4(Fade4(Fade4(Fade4(a))))

RECURSIVE FadeCount(_, _)
\* n plus the number of fades that bring alpha `a` below the cutoff (counted
\* sixteen at a time while sixteen fades stay at or above it).
FadeCount(a, n) ==
    IF a < Cutoff THEN n
    ELSE IF Fade16(a) >= Cutoff THEN FadeCount(Fade16(a), n + 16)
    ELSE FadeCount(Fade(a), n + 1)

\* The number of fades that bring an alpha of 1.0 below the cutoff.
FadeSteps == FadeCount(AlphaOne, 0)

RECURSIVE EvictFront(_)
\* while the front sample's alpha is below the cutoff, pop it.
EvictFront(ts) ==
    IF Len(ts) > 0 /\ Head(ts).colour.a < Cutoff THEN EvictFront(Tail(ts)) ELSE ts

\* The trail update with the new samples put at the front.
UpdateTrailsPrepend(ts, bs) ==
    EvictFront([i \in 1..3 |-> TrailFrom(bs[i - 1])]
               \o [i \in 1..Len(ts) |-> [ts[i] EXCEPT !.colour.a = Fade(@)]])

\* Lines 68-72: fade every sample, append one per body, evict from the front.
UpdateTrails(ts, bs) ==
    EvictFront([i \in 1..Len(ts) |-> [ts[i] EXCEPT !.colour.a = Fade(@)]]
               \o [i \in 1..3 |-> TrailFrom(bs[i - 1])])

(***************************************************************************)
(* The physics step (the body of "if running")                             *)
(***************************************************************************)
\* update_velocity reading the array that is being updated.
SnapshotInPlace(new_bodies, bodies) == new_bodies

\* The bodies update_velocity reads: the array as it was before the step.
SnapshotFor(new_bodies, bodies) == bodies

RECURSIVE VelocityPass(_, _, _, _)
\* new_bodies.iter_mut().for_each(...), visiting the indices in `order`.
VelocityPass(new_bodies, bodies, elastic_collisions, order) ==
    IF order = <<>> THEN new_bodies
    ELSE LET i == Head(order)
         IN  VelocityPass(
                 [new_bodies EXCEPT ![i] =
                     update_velocity(new_bodies[i], SnapshotFor(new_bodies, bodies),
                                     elastic_collisions)],
                 bodies, elastic_collisions, Tail(order))

\* Lines 61-67: the new velocities, computed in array order.
UpdateVelocities(bodies, elastic_collisions) ==
    VelocityPass(bodies, bodies, elastic_collisions, <<0, 1, 2>>)

\* Line 73.
UpdatePositions(bs) == [i \in BodyIdx |-> update_position(bs[i])]

\* Lines 75-78: running after the step.
RunningAfter(bs, elastic_collisions) ==
    IF ~elastic_collisions THEN ~has_collision(bs) ELSE TRUE

\* A reset that leaves the trails alone.
ResetTrailsKept(ts) == ts

\* Line 40: trails.clear().
ResetTrails(ts) == <<>>

\* A reset that leaves running as it was.
ResetRunningKept(run) == run

\* Line 41: running = true.
ResetRunning(run) == TRUE

\* A step that also runs whenever elastic mode is on.
StepRunsOrElastic(run, elastic_collisions) == run \/ elastic_collisions

\* Line 59: the physics step runs when running holds; the collision mode
\* plays no part.
StepRuns(run, elastic_collisions) == run

\* Ui::toggle.
toggle(ui) ==
    CASE ui = "Off" -> "Minimal"
      [] ui = "Minimal" -> "Full"
      [] ui = "Full" -> "Off"

(***************************************************************************)
(* State of main                                                           *)
(***************************************************************************)
VARIABLES
    is_wasm,             \* the build's IS_WASM
    pc,                  \* "loop" or "exited"
    bodies,              \* [Body; 3]
    trails,              \* VecDeque<Trail>
    running,
    show_ui,
    auto_restart,
    elastic_collisions,
    \* History of the last frame, for stating properties:
    reset_released,      \* Space or the left mouse button was released
    reset_fired,         \* the reset branch (lines 35-41) ran
    stepped,             \* the physics step (lines 60-78) ran
    snap,                \* the bodies the last physics step started from
    steps                \* physics steps since the last reset

vars == <<is_wasm, pc, bodies, trails, running, show_ui, auto_restart,
          elastic_collisions, reset_released, reset_fired, stepped, snap, steps>>

MaxSteps == 3

\* main up to the loop, with the first bodies drawn from `fresh` and the
\* build's IS_WASM from `builds`.
InitWith(fresh, builds) ==
    /\ is_wasm \in builds
    /\ pc = "loop"
    /\ bodies \in fresh
    /\ trails = <<>>
    /\ running = TRUE
    /\ show_ui = "Full"
    /\ auto_restart = is_wasm
    /\ elastic_collisions = FALSE
    /\ reset_released = FALSE
    /\ reset_fired = FALSE
    /\ stepped = FALSE
    /\ snap = bodies
    /\ steps = 0

Init == InitWith(FreshBodies, BOOLEAN)

\* Lines 26-28: Escape released on a native build.
Exit ==
    /\ pc = "loop"
    /\ ~is_wasm
    /\ pc' = "exited"
    /\ UNCHANGED <<is_wasm, bodies, trails, running, show_ui, auto_restart,
                   elastic_collisions, reset_released, reset_fired, stepped,
                   snap, steps>>

\* One iteration of the loop that does not exit (lines 30-87).  reset_input:
\* Space or the left mouse button was released; u, r, c: that key was
\* released; fresh: the bodies a reset draws; limit: the bound on the steps
\* of one run.
Frame(reset_input, u, r, c, fresh, limit) ==
    LET reset == reset_input \/ (~running /\ auto_restart)
        bodies1 == IF reset THEN fresh ELSE bodies
        trails1 == IF reset THEN ResetTrails(trails) ELSE trails
        running1 == IF reset THEN ResetRunning(running) ELSE running
        steps1 == IF reset THEN 0 ELSE steps
        elastic1 == IF c THEN ~elastic_collisions ELSE elastic_collisions
        runs == StepRuns(running1, elastic1)
    IN  /\ pc = "loop"
        /\ runs => steps1 < limit
        /\ show_ui' = IF u THEN toggle(show_ui) ELSE show_ui
        /\ auto_restart' = IF r THEN ~auto_restart ELSE auto_restart
        /\ elastic_collisions' = elastic1
        /\ IF runs
           THEN \E new_bodies \in {UpdateVelocities(bodies1, elastic1)} :
                /\ trails' = UpdateTrails(trails1, new_bodies)
                /\ bodies' = UpdatePositions(new_bodies)
                /\ running' = RunningAfter(bodies', elastic1)
                /\ snap' = bodies1
                /\ steps' = steps1 + 1
           ELSE /\ trails' = trails1
                /\ bodies' = bodies1
                /\ running' = running1
                /\ snap' = snap
                /\ steps' = steps1
        /\ reset_released' = reset_input
        /\ reset_fired' = reset
        /\ stepped' = runs
        /\ UNCHANGED <<is_wasm, pc>>

\* A frame with every combination of the inputs, U drawn from `us` and R
\* from `rs`; a reset draws its bodies from `fresh`.
FrameFrom(fresh, limit, us, rs) ==
    \E reset_input \in BOOLEAN, u \in us, r \in rs, c \in BOOLEAN :
        IF reset_input \/ (~running /\ auto_restart)
        THEN \E f \in fresh : Frame(reset_input, u, r, c, f, limit)
        ELSE Frame(reset_input, u, r, c, bodies, limit)

MainFrame == FrameFrom(FreshBodies, MaxSteps, BOOLEAN, BOOLEAN)

Next == Exit \/ MainFrame

Spec == Init /\ [][Next]_vars

(***************************************************************************)
(* The first physics step over a wide set of draws: positions 3, 4 and 5   *)
(* pixels apart, masses 1 to 3, opposite velocities, either collision mode.*)
(***************************************************************************)
StepXChoices == {8, 11}

StepYChoices == {8, 12}

StepVelChoices == {-1, 1}

StepMassChoices == {1, 2, 3}

StepRandomBodies(id, ys) ==
    {new_random(id, AlphaOne, AlphaOne, AlphaOne, x, y, vx, 0, m) :
        x \in StepXChoices, y \in ys, vx \in StepVelChoices,
        m \in StepMassChoices}

\* Bodies 0 and 1 on one row, body 2 on that row or the one below.
StepBodies ==
    {BodyArray(b0, b1, b2) :
        b0 \in StepRandomBodies(0, {8}), b1 \in StepRandomBodies(1, {8}),
        b2 \in StepRandomBodies(2, StepYChoices)}

StepLimit == 1

InitStep == InitWith(StepBodies, {FALSE})

\* A frame with no reset, C released or not.
StepFrame == \E c \in BOOLEAN : Frame(FALSE, FALSE, FALSE, c, bodies, StepLimit)

SpecStep == InitStep /\ [][StepFrame]_vars

(***************************************************************************)
(* update_position alone, applied repeatedly to bodies anywhere in the     *)
(* viewport with velocities up to and beyond its extent.                   *)
(***************************************************************************)
PosXInputs == {0, 1, 8, 15, 16}

PosYInputs == {0, 8, 16}

PosVelXInputs == {-17, -16, -9, -1, 0, 1, 9, 16, 17}

PosVelYInputs == {-16, 0, 16}

PosBodies ==
    {BodyArray([Still(0, x, y) EXCEPT !.velocity = Vec(vx, vy)],
               [Still(1, y, x) EXCEPT !.velocity = Vec(vy, vx)],
               Still(2, 8, 8)) :
        x \in PosXInputs, y \in PosYInputs, vx \in PosVelXInputs, vy \in PosVelYInputs}

MaxPosSteps == 3

InitPos == InitWith(PosBodies, {FALSE})

\* bodies.iter_mut().for_each(Body::update_position), and nothing else.
PositionStep ==
    /\ steps < MaxPosSteps
    /\ bodies' = UpdatePositions(bodies)
    /\ snap' = bodies
    /\ steps' = steps + 1
    /\ stepped' = TRUE
    /\ UNCHANGED <<is_wasm, pc, trails, running, show_ui, auto_restart,
                   elastic_collisions, reset_released, reset_fired>>

SpecPos == InitPos /\ [][PositionStep]_vars

(***************************************************************************)
(* Long runs, for the trail: bodies that stay at rest on the pixel grid.   *)
(* Far apart they never collide; the heavy overlapping ones stay at rest   *)
(* in elastic mode and halt the simulation in halting mode.                *)
(***************************************************************************)
Heavy(id, x, y) == [Still(id, x, y) EXCEPT !.mass = 10]

RestingBodies == BodyArray(Still(0, 4, 4), Still(1, 12, 4), Still(2, 8, 12))

TrailBodies ==
    { RestingBodies,
      BodyArray(Heavy(0, 4, 4), Heavy(1, 12, 12), Heavy(2, 4, 12)) }

MaxTrailSteps == 925

RECURSIVE FadeN(_, _)
\* Alpha `a` after n fades (sixteen at a time; zero stays zero).
FadeN(a, n) ==
    IF n = 0 \/ a = 0 THEN a
    ELSE IF n >= 16 THEN FadeN(Fade16(a), n - 16)
    ELSE FadeN(Fade(a), n - 1)

WarmSteps == 896

\* An alpha of 1.0 after k fades.
FadeTable == [k \in 0..WarmSteps |-> FadeN(AlphaOne, k)]

\* The trails after WarmSteps physics steps of the resting bodies: the
\* samples appended in step k have been faded in each step after it.
WarmTrails ==
    EvictFront([i \in 1..(3 * WarmSteps) |->
                   [TrailFrom(RestingBodies[(i - 1) % 3])
                       EXCEPT !.colour.a = FadeTable[WarmSteps - 1 - ((i - 1) \div 3)]]])

\* The program WarmSteps frames into an undisturbed native run of the
\* resting bodies (the state the run from InitWith reaches after as many
\* frames with no input).
InitWarm ==
    /\ is_wasm = FALSE
    /\ pc = "loop"
    /\ bodies = RestingBodies
    /\ trails = WarmTrails
    /\ running = TRUE
    /\ show_ui = "Full"
    /\ auto_restart = FALSE
    /\ elastic_collisions = FALSE
    /\ reset_released = FALSE
    /\ reset_fired = FALSE
    /\ stepped = TRUE
    /\ snap = bodies
    /\ steps = WarmSteps

InitTrail == InitWith(TrailBodies, {FALSE}) \/ InitWarm

\* Frames with U and R not released.
TrailFrame == FrameFrom(TrailBodies, MaxTrailSteps, {FALSE}, {FALSE})

\* The run from the start alone, to compare with the one that has InitWarm.
SpecTrailCold == InitWith(TrailBodies, {FALSE}) /\ [][TrailFrame]_vars

SpecTrail == InitTrail /\ [][TrailFrame]_vars

(***************************************************************************)
(* Properties                                                              *)
(***************************************************************************)
\* Two bodies within the sum of their masses of each other, boundary
\* included, stated on the squared whole-pixel distance.
Touching(a, b) ==
    /\ ~a.position.nan
    /\ ~b.position.nan
    /\ (a.position.x - b.position.x) * (a.position.x - b.position.x)
         + (a.position.y - b.position.y) * (a.position.y - b.position.y)
       <= (a.mass + b.mass) * (a.mass + b.mass)

\* Two bodies exactly the sum of their masses apart.
JustTouching(a, b) ==
    /\ Touching(a, b)
    /\ (a.position.x - b.position.x) * (a.position.x - b.position.x)
         + (a.position.y - b.position.y) * (a.position.y - b.position.y)
       = (a.mass + b.mass) * (a.mass + b.mass)

\* C1: a frame whose physics step ran ends with running = false exactly when
\* elastic mode is off in that frame and some pair of distinct bodies is, after
\* the position update, within the sum of their masses (boundary included).
C1_HaltIffCollision ==
    stepped =>
        (running = FALSE <=>
            (~elastic_collisions /\
             \E i \in BodyIdx : \E j \in BodyIdx :
                 i # j /\ Touching(bodies[i], bodies[j])))

\* C1 happens: a halting-mode step stopped the simulation on a pair exactly
\* the sum of its masses apart, no pair being closer.
C1_Witness ==
    /\ stepped /\ ~running /\ ~elastic_collisions
    /\ \E i \in BodyIdx : \E j \in BodyIdx : i # j /\ JustTouching(bodies[i], bodies[j])
    /\ \A i \in BodyIdx : \A j \in BodyIdx :
           (i # j /\ Touching(bodies[i], bodies[j])) => JustTouching(bodies[i], bodies[j])

\* C2: a frame that starts stopped and in which no reset fires (no reset input
\* released, auto-restart off at the reset check) leaves the bodies and the
\* trail as they were and running false, whatever U, R and C do.
C2_StoppedFrozen ==
    [][(~running /\ ~auto_restart /\ ~reset_released')
         => (bodies' = bodies /\ trails' = trails /\ running' = FALSE)]_vars

\* C2 happens: a stopped frame ran with no reset and left elastic mode on and
\* the UI toggled.
C2_Witness ==
    /\ pc = "loop" /\ ~running /\ ~stepped /\ steps > 0
    /\ ~reset_fired /\ ~reset_released
    /\ elastic_collisions /\ show_ui # "Full" /\ auto_restart

\* C3: in a frame that starts stopped with auto-restart on, or in which a reset
\* input is released, the reset fires: the step of that frame starts from three
\* fresh bodies with ids 0, 1, 2 and an empty trail (so the trail then holds
\* exactly their three samples) and running true, so the physics step runs.
\* With auto-restart on at the reset check every frame runs the physics step.
C3_ResetRestarts ==
    [][(pc = "loop" /\ pc' = "loop")
         => /\ ((~running /\ auto_restart) \/ reset_released')
                => /\ reset_fired' /\ stepped' /\ steps' = 1
                   /\ IsFresh(snap')
                   /\ Len(trails') = 3
                   /\ \A i \in BodyIdx :
                          trails'[i + 1] = [position |-> snap'[i].position,
                                            colour |-> snap'[i].colour]
            /\ auto_restart => stepped']_vars

\* C3 happens: a stopped simulation was restarted by auto-restart alone.
C3_Witness ==
    /\ reset_fired /\ ~reset_released /\ stepped /\ steps = 1 /\ Len(trails) = 3

\* The gravity branch of the last step was evaluated for body b.
GravityEvaluated(b) == stepped /\ ~Collided(snap[b], snap, elastic_collisions)

\* The zero vector.
IsZero(v) == ~v.nan /\ v.x = 0 /\ v.y = 0

NoCoincidentGravity ==
    \A b \in BodyIdx : \A o \in BodyIdx :
        (b # o /\ GravityEvaluated(b))
            => ~IsZero(VSub(snap[o].position, snap[b].position))

Orders ==
    {<<0, 1, 2>>, <<0, 2, 1>>, <<1, 0, 2>>, <<1, 2, 0>>, <<2, 0, 1>>, <<2, 1, 0>>}

\* C4: the velocities a physics step assigns are those update_velocity gives
\* each body from the bodies as they were before the step, and the same for
\* every order in which the bodies are visited.
C4_SimultaneousUpdate ==
    stepped =>
        \A i \in BodyIdx :
            /\ bodies[i].velocity
                 = update_velocity(snap[i], snap, elastic_collisions).velocity
            /\ \A order \in Orders :
                   VelocityPass(snap, snap, elastic_collisions, order)[i].velocity
                     = bodies[i].velocity

\* C4 happens: an elastic step in which one body took the elastic branch and
\* changed its velocity while another took the gravity branch.
C4_Witness ==
    /\ stepped /\ elastic_collisions
    /\ \E b \in BodyIdx :
           /\ Collided(snap[b], snap, elastic_collisions)
           /\ bodies[b].velocity # snap[b].velocity
    /\ \E b \in BodyIdx :
           /\ ~Collided(snap[b], snap, elastic_collisions)
           /\ bodies[b].velocity # snap[b].velocity

\* The others within the sum of the masses of body b before the last step.
OthersTouching(b) == {o \in BodyIdx \ {b} : Touching(snap[b], snap[o])}

\* ((m_b - m_o)/(m_b + m_o)) * v_b + (2 * m_o/(m_b + m_o)) * v_o, in fixed point.
PairResult(b, o) ==
    LET mb == snap[b].mass
        mo == snap[o].mass
        vb == snap[b].velocity
        vo == snap[o].velocity
        kb == RDiv((mb - mo) * Scale, mb + mo)
        ko == RDiv(2 * mo * Scale, mb + mo)
    IN  Vec(RDiv(kb * vb.x * Scale, Scale) + RDiv(ko * vo.x * Scale, Scale),
            RDiv(kb * vb.y * Scale, Scale) + RDiv(ko * vo.y * Scale, Scale))

\* The sum of PairResult over a set of one or two others.
PairResultSum(b, hit) ==
    LET o1 == CHOOSE o \in hit : TRUE
        rest == hit \ {o1}
    IN  IF rest = {} THEN PairResult(b, o1)
        ELSE VAdd(PairResult(b, o1), PairResult(b, CHOOSE o \in rest : TRUE))

\* C8: in an elastic step a body that overlaps others gets the sum of the
\* per-pair elastic results as its velocity and no gravity; every other body,
\* and every body with elastic mode off, gets its old velocity plus the
\* gravity increment.
C8_ElasticPrecedence ==
    stepped =>
        \A b \in BodyIdx :
            IF elastic_collisions /\ OthersTouching(b) # {}
            THEN bodies[b].velocity = ToPixels(PairResultSum(b, OthersTouching(b)))
            ELSE bodies[b].velocity
                   = VAdd(snap[b].velocity, ToPixels(GravityIncrement(snap[b], snap)))

\* C8 happens: an elastic step in which a body overlapped both others, of
\* masses different from its own, while their gravity on it was not zero.
C8_Witness ==
    /\ stepped /\ elastic_collisions
    /\ \E b \in BodyIdx :
           /\ Cardinality(OthersTouching(b)) = 2
           /\ \A o \in OthersTouching(b) :
                  snap[o].mass # snap[b].mass /\ snap[o].position # snap[b].position
           /\ bodies[b].velocity # snap[b].velocity
           /\ ToPixels(GravityIncrement(snap[b], snap)) # Vec(0, 0)

\* C9: in an elastic step two bodies of equal mass that overlap each other
\* and no third body exchange their velocities, and running stays true.
C9_EqualMassSwap ==
    (stepped /\ elastic_collisions) =>
        \A a \in BodyIdx : \A b \in BodyIdx : \A c \in BodyIdx :
            (/\ a # b /\ a # c /\ b # c
             /\ snap[a].mass = snap[b].mass
             /\ Touching(snap[a], snap[b])
             /\ ~Touching(snap[a], snap[c])
             /\ ~Touching(snap[b], snap[c]))
                => /\ bodies[a].velocity = snap[b].velocity
                   /\ bodies[b].velocity = snap[a].velocity
                   /\ running

\* C9 happens: such a pair with different velocities went through an elastic
\* step.
C9_Witness ==
    /\ stepped /\ elastic_collisions /\ running
    /\ \E a \in BodyIdx : \E b \in BodyIdx : \E c \in BodyIdx :
           /\ a # b /\ a # c /\ b # c
           /\ snap[a].mass = snap[b].mass
           /\ Touching(snap[a], snap[b])
           /\ ~Touching(snap[a], snap[c])
           /\ ~Touching(snap[b], snap[c])
           /\ snap[a].velocity # snap[b].velocity
           /\ bodies[a].velocity = snap[b].velocity

\* One axis of C10: position p moved by v lands on q in a viewport of the
\* given extent.
AxisWrapped(p, v, q, extent) ==
    /\ p + v > extent => q = p + v - extent
    /\ p + v < 0 => q = p + v + extent
    /\ (0 <= p + v /\ p + v <= extent) => q = p + v
    /\ (0 <= p /\ p <= extent /\ Abs(v) <= extent) => (0 <= q /\ q <= extent)
    /\ v = 0 => q = p

\* C10: update_position adds the velocity and wraps each axis: past the
\* extent the body re-enters at the sum minus the extent, below zero at the
\* sum plus the extent; a body inside the viewport whose velocity component
\* does not exceed the extent stays inside it, and a body with zero velocity
\* does not move.
C10_WrapAround ==
    stepped =>
        \A b \in BodyIdx :
            /\ AxisWrapped(snap[b].position.x, snap[b].velocity.x,
                           bodies[b].position.x, ScreenW)
            /\ AxisWrapped(snap[b].position.y, snap[b].velocity.y,
                           bodies[b].position.y, ScreenH)
            /\ (/\ Abs(bodies[b].velocity.x) <= ScreenW
                /\ Abs(bodies[b].velocity.y) <= ScreenH)
                   => /\ 0 <= bodies[b].position.x /\ bodies[b].position.x <= ScreenW
                      /\ 0 <= bodies[b].position.y /\ bodies[b].position.y <= ScreenH

\* C10 happens: after several steps one body has just crossed x = width and
\* another has just crossed below x = 0, both with velocities within the
\* extent.
C10_Witness ==
    /\ stepped /\ steps >= 2
    /\ \E a \in BodyIdx : \E b \in BodyIdx :
           /\ snap[a].position.x + snap[a].velocity.x > ScreenW
           /\ Abs(snap[a].velocity.x) <= ScreenW
           /\ bodies[a].position.x = snap[a].position.x + snap[a].velocity.x - ScreenW
           /\ snap[b].position.x + snap[b].velocity.x < 0
           /\ Abs(snap[b].velocity.x) <= ScreenW
           /\ bodies[b].position.x = snap[b].position.x + snap[b].velocity.x + ScreenW

\* C6: from the front of the trail sequence to the back the alphas never
\* decrease, and no sample has an alpha below the cutoff.
C6_OldestAtFront ==
    /\ \A i \in 1..(Len(trails) - 1) : trails[i].colour.a <= trails[i + 1].colour.a
    /\ \A i \in 1..Len(trails) : trails[i].colour.a >= Cutoff

\* C6 happens: after a physics step the sequence holds every generation of
\* samples down to one that the next fade takes below the cutoff.
C6_Witness ==
    /\ stepped
    /\ Len(trails) > 3
    /\ Fade(Head(trails).colour.a) < Cutoff
    /\ Head(trails).colour.a < trails[Len(trails)].colour.a

\* The smaller of two numbers.
Min(a, b) == IF a < b THEN a ELSE b

\* C7: the trail length is a multiple of 3 and at most 3 * K, K the number of
\* fades that bring an alpha of 1 below the cutoff; it is 3 per physics step
\* since the last reset until it reaches 3 * K, and is 3 after a frame in
\* which a reset fired.
C7_TrailBounded ==
    /\ Len(trails) % 3 = 0
    /\ Len(trails) <= 3 * FadeSteps
    /\ Len(trails) = 3 * Min(steps, FadeSteps)
    /\ (reset_fired /\ pc = "loop") => Len(trails) = 3

\* C7 happens: physics steps went on past the steady-state size and the
\* length stayed there.
C7_Witness ==
    /\ stepped
    /\ steps > FadeSteps
    /\ Len(trails) = 3 * FadeSteps

=============================================================================
